---- MODULE Spec2Model ----
(***************************************************************************)
(* Model of the IOTA interceptor middleware of iotacaddy                    *)
(* (src/iota/plugin.go): Interceptor.ServeHTTP run by concurrent requests   *)
(* that share the package-level mutex mu and the two configured limits.     *)
(***************************************************************************)
EXTENDS Integers, Sequences, FiniteSets, TLC

\* ------------------------------------------------------------------ bounds
\* Number of requests served concurrently.
NumReqs == 2
\* Largest value of the first argument of the iota directive (max MWM).
MaxDifficulty == 1
\* Largest value of the second argument of the iota directive (max txs).
MaxBundle == 2
\* The clock is followed over this many milliseconds.
MaxMillis == 2
\* The iota directive occurs up to this many times in the server block.
MaxOccurrences == 2
\* An occurrence of the directive carries up to this many arguments.
MaxArgs == 3

Reqs == 1..NumReqs

\* ------------------------------------------------------- program constants
attachToTangleCommand == "attachToTangle"
StatusOK == 200
StatusBadRequest == 400
StatusInternalServerError == 500
ErrMissingBody == "missing body"
ErrBuildingTx == "couldn't build transaction from trytes"
ErrBuildingRes == "couldn't build response"
ErrTxBundleLimitExceeded ==
    "the number of transactions in the bundle exceed the attachToTangle limit"
ErrExecutingProofOfWork == "failed to do Proof of Work"
ErrInvalidMWM == "MWM is higher than max allowed MWM or less than 0"

\* ---------------------------------------------------------------- inputs
\* Transaction trytes are abstract payloads: a well-formed transaction with
\* identity k, or a string that is no transaction; attached marks the payload
\* the proof of work returns.
Trytes(k) == [id |-> k, wellFormed |-> TRUE, attached |-> FALSE]
BadTrytes(k) == [id |-> k, wellFormed |-> FALSE, attached |-> FALSE]

\* The batch of length n whose payloads at the positions in bad are malformed.
Batch(n, bad) == [k \in 1..n |-> IF k \in bad THEN BadTrytes(k) ELSE Trytes(k)]

\* Batches of every length up to the largest limit, well-formed throughout or
\* with one malformed payload at any position, and one batch over the limit.
Batches ==
    { Batch(n, {}) : n \in 0..(MaxBundle + 1) }
    \cup UNION { { Batch(n, {k}) : k \in 1..n } : n \in 1..MaxBundle }

\* The empty batch and the batch over the limit.
EdgeBatches == { Batch(n, {}) : n \in {0, MaxBundle + 1} }

\* minWeightMagnitude values from below the allowed range to above it.
MWMs == (-1)..(MaxDifficulty + 1)

\* One chunk of body bytes.  A JSON object is given by the values of the
\* fields the envelope knows (an absent field and its zero value decode
\* alike); anything else is bytes that are no JSON object.
JSONObject(c, m, t) ==
    [syntax |-> "object", command |-> c, minWeightMagnitude |-> m, trytes |-> t]
Garbage ==
    [syntax |-> "garbage", command |-> "", minWeightMagnitude |-> 0, trytes |-> <<>>]

\* Bodies: empty, no JSON, other commands, and attachToTangle envelopes: every
\* batch at the largest allowed difficulty, the edge batches at every
\* difficulty.
BodyBytes ==
    { <<>>, <<Garbage>>, <<JSONObject("getNodeInfo", 0, <<>>)>>,
      <<JSONObject("", 0, <<>>)>> }
    \cup { <<JSONObject(attachToTangleCommand, MaxDifficulty, t)>> : t \in Batches }
    \cup { <<JSONObject(attachToTangleCommand, m, t)>> : m \in MWMs, t \in EdgeBatches }

\* r.Body: absent, a stream whose read fails, or a stream of bytes.
NilBody == [kind |-> "nil", data |-> <<>>]
BrokenBody == [kind |-> "broken", data |-> <<>>]
Reader(b) == [kind |-> "reader", data |-> b]

Requests ==
    { [method |-> "GET", body |-> NilBody] }
    \cup { [method |-> "POST", body |-> b] :
             b \in {NilBody, BrokenBody} \cup { Reader(d) : d \in BodyBytes } }

\* The limits the iota directive can leave behind after setup.
Limits ==
    { [maxMWM |-> MaxDifficulty, maxTxInBundle |-> n] : n \in {-1, MaxBundle} }

\* ----------------------------------------------------------------- state
VARIABLES
    maxMWM,         \* package variable maxMWM
    maxTxInBundle,  \* package variable maxTxInBundle
    mu,             \* package mutex mu: TRUE while locked
    pc,             \* position of each request in ServeHTTP
    req,            \* the request each call of ServeHTTP received
    body,           \* r.Body of each request as ServeHTTP leaves it
    command,        \* the decoded envelope (local variable command)
    deferred,       \* the calls each request has deferred
    idx,            \* loop variable i of the decode loop (1-based)
    transactions,   \* local slice transactions
    powedBundle,    \* result of pow.DoPoW
    w,              \* the response writer of each request
    ret,            \* what ServeHTTP returned
    fwd,            \* the request interc.Next.ServeHTTP received
    powErr,         \* whether pow.DoPoW returned an error (err of line 203)
    powCalls,       \* number of calls of pow.DoPoW each request made
    locks,          \* number of calls of mu.Lock each request returned from
    unlocks,        \* number of calls of mu.Unlock each request made
    waitq,          \* the requests parked inside mu.Lock(), in parking order
    now,            \* the wall clock time.Now() reads, in clock ticks
    validatedAt,    \* the clock when each request passed the check of line 150
    start,          \* local variable start of line 171
    powIn,          \* the batch each request handed to pow.DoPoW
    res,            \* local variable res of line 210
    caddyfile,      \* setup: the occurrences of the iota directive as configured
    directives,     \* setup: the occurrences of the iota directive not yet read
    args,           \* setup: the arguments of the current occurrence not yet read
    i,              \* setup: local variable i
    setupPc,        \* setup: position in setup
    setupRet        \* setup: what setup returned

\* The state of setup.
setupVars == <<caddyfile, directives, args, i, setupPc, setupRet>>

vars == <<maxMWM, maxTxInBundle, mu, pc, req, body, command, deferred, idx,
          transactions, powedBundle, w, ret, fwd, powErr, powCalls, locks,
          unlocks, waitq, now, validatedAt, start, powIn, res, setupVars>>

NoRequest == [method |-> "", body |-> NilBody]
NoCommand == [Command |-> "", MWM |-> 0, Trytes |-> <<>>]
NoReturn == [kind |-> "none", status |-> 0, err |-> ""]
NoForward == [called |-> FALSE, method |-> "", body |-> NilBody]
NewWriter == [header |-> {}, written |-> <<>>]
NoResponse == [Trytes |-> <<>>, Duration |-> 0]

\* The requests of the set R have not arrived and the mutex is free.
ServeInit(R) ==
    /\ mu = FALSE
    /\ pc = [r \in R |-> "idle"]
    /\ req = [r \in R |-> NoRequest]
    /\ body = [r \in R |-> NilBody]
    /\ command = [r \in R |-> NoCommand]
    /\ deferred = [r \in R |-> <<>>]
    /\ idx = [r \in R |-> 0]
    /\ transactions = [r \in R |-> <<>>]
    /\ powedBundle = [r \in R |-> <<>>]
    /\ w = [r \in R |-> NewWriter]
    /\ ret = [r \in R |-> NoReturn]
    /\ fwd = [r \in R |-> NoForward]
    /\ powErr = [r \in R |-> FALSE]
    /\ powCalls = [r \in R |-> 0]
    /\ locks = [r \in R |-> 0]
    /\ unlocks = [r \in R |-> 0]
    /\ waitq = <<>>
    /\ validatedAt = [r \in R |-> 0]
    /\ start = [r \in R |-> 0]
    /\ powIn = [r \in R |-> <<>>]
    /\ res = [r \in R |-> NoResponse]

\* setup has returned nil and left one of the limits behind.
SetupDone ==
    /\ \E l \in Limits : maxMWM = l.maxMWM /\ maxTxInBundle = l.maxTxInBundle
    /\ caddyfile = <<>>
    /\ directives = <<>>
    /\ args = <<>>
    /\ i = 0
    /\ setupPc = "returned"
    /\ setupRet = "nil"

\* The server after setup, before any request, with the clock at its origin.
Init ==
    /\ SetupDone
    /\ ServeInit(Reqs)
    /\ now = 0

\* ------------------------------------------------------- library functions
\* ioutil.ReadAll(r.Body): the bytes left in the stream, which it drains.
ReadAll(b) ==
    IF b.kind = "broken"
    THEN [err |-> TRUE, contents |-> <<>>, rest |-> b]
    ELSE [err |-> FALSE, contents |-> b.data, rest |-> [b EXCEPT !.data = <<>>]]

\* A slip that re-attaches a reader with nothing left in it.
NopCloserDrained(contents) == Reader(<<>>)

\* ioutil.NopCloser(bytes.NewReader(contents))
NopCloser(contents) == Reader(contents)

\* json.Unmarshal(contents, command) into an AttachToTangleReq.
Unmarshal(contents) ==
    IF Len(contents) = 1 /\ contents[1].syntax = "object"
    THEN [err |-> FALSE,
          val |-> [Command |-> contents[1].command,
                   MWM |-> contents[1].minWeightMagnitude,
                   Trytes |-> contents[1].trytes]]
    ELSE [err |-> TRUE, val |-> NoCommand]

\* A slip that drops the decode error.
AsTransactionObjectNoError(t) == [err |-> FALSE, tx |-> t]

\* transaction.AsTransactionObject(txTrytes[i])
AsTransactionObject(t) == [err |-> ~t.wellFormed, tx |-> t]

\* pow.DoPoW when it succeeds: every transaction of the batch, in order, with
\* its nonce attached.
DoPoW(txTrytes) == [k \in DOMAIN txTrytes |-> [txTrytes[k] EXCEPT !.attached = TRUE]]

\* What the next handler reads from the body of the request it is given.
Yield(b) == IF b.kind = "reader" THEN b.data ELSE <<>>

\* ----------------------------------------------------------- control flow
Error(status, err) == [kind |-> "error", status |-> status, err |-> err]
Forwarded == [kind |-> "forward", status |-> 0, err |-> ""]
Success == [kind |-> "ok", status |-> StatusOK, err |-> ""]

\* A slip that returns without running the deferred call.
RunDeferredNever(r) == UNCHANGED <<mu, unlocks, deferred>>

\* The deferred mu.Unlock() runs when ServeHTTP returns.
RunDeferred(r) ==
    IF deferred[r] # <<>>
    THEN /\ mu' = FALSE
         /\ unlocks' = [unlocks EXCEPT ![r] = @ + 1]
         /\ deferred' = [deferred EXCEPT ![r] = <<>>]
    ELSE UNCHANGED <<mu, unlocks, deferred>>

\* return status, err
Return(r, v) ==
    /\ pc' = [pc EXCEPT ![r] = "done"]
    /\ ret' = [ret EXCEPT ![r] = v]
    /\ RunDeferred(r)
    /\ UNCHANGED fwd

\* interc.Next.ServeHTTP(w, r) is entered with the request as it is now.
CallNext(r, method, stream) ==
    /\ pc' = [pc EXCEPT ![r] = "next"]
    /\ fwd' = [fwd EXCEPT ![r] = [called |-> TRUE, method |-> method, body |-> stream]]
    /\ UNCHANGED <<ret, mu, unlocks, deferred>>

Goto(r, label) ==
    /\ pc' = [pc EXCEPT ![r] = label]
    /\ UNCHANGED <<ret, fwd, mu, unlocks, deferred>>

\* ---------------------------------------------------------------- actions
\* A slip that forwards the request that has no body.
ClassifyOutcomeForwardNil(q) ==
    IF q.method # "POST" \/ q.body.kind = "nil"
    THEN [to |-> "forward", body |-> q.body, command |-> NoCommand]
    ELSE LET rd == ReadAll(q.body) IN
         IF rd.err
         THEN [to |-> "missing", body |-> rd.rest, command |-> NoCommand]
         ELSE LET um == Unmarshal(rd.contents) IN
              IF um.err
              THEN [to |-> "forward", body |-> rd.rest, command |-> NoCommand]
              ELSE IF um.val.Command # attachToTangleCommand
              THEN [to |-> "forward", body |-> NopCloser(rd.contents),
                    command |-> um.val]
              ELSE [to |-> "validate", body |-> NopCloser(rd.contents),
                    command |-> um.val]

\* Lines 123-148 as a function of the request: where ServeHTTP goes, what
\* r.Body is then and what was decoded.
ClassifyOutcome(q) ==
    IF q.method # "POST"
    THEN [to |-> "forward", body |-> q.body, command |-> NoCommand]
    ELSE IF q.body.kind = "nil"
    THEN [to |-> "missing", body |-> q.body, command |-> NoCommand]
    ELSE LET rd == ReadAll(q.body) IN
         IF rd.err
         THEN [to |-> "missing", body |-> rd.rest, command |-> NoCommand]
         ELSE LET um == Unmarshal(rd.contents) IN
              IF um.err
              THEN [to |-> "forward", body |-> rd.rest, command |-> NoCommand]
              ELSE IF um.val.Command # attachToTangleCommand
              THEN [to |-> "forward", body |-> NopCloser(rd.contents),
                    command |-> um.val]
              ELSE [to |-> "validate", body |-> NopCloser(rd.contents),
                    command |-> um.val]

\* A request arrives and ServeHTTP classifies it (lines 122-148).
Classify(r, q) ==
    /\ pc[r] = "idle"
    /\ LET out == ClassifyOutcome(q) IN
        /\ req' = [req EXCEPT ![r] = q]
        /\ body' = [body EXCEPT ![r] = out.body]
        /\ command' = [command EXCEPT ![r] = out.command]
        /\ CASE out.to = "forward" -> CallNext(r, q.method, out.body)
             [] out.to = "missing" -> Return(r, Error(StatusBadRequest, ErrMissingBody))
             [] OTHER -> Goto(r, "validate")
    /\ UNCHANGED <<waitq, now, validatedAt, start, powIn, res, setupVars,
                   maxMWM, maxTxInBundle, idx, transactions, powedBundle, w,
                   powErr, powCalls, locks>>

\* A slip that forgets the lower end of the range.
InvalidMWMUpperOnly(m) == m > maxMWM

\* command.MWM > maxMWM || command.MWM < 0
InvalidMWM(m) == m > maxMWM \/ m < 0

\* A slip that raises the difficulty limit to what the request asks for.
ValidateRaisingLimit(r) ==
    /\ pc[r] = "validate"
    /\ maxMWM' = IF command[r].MWM > maxMWM THEN command[r].MWM ELSE maxMWM
    /\ IF command[r].MWM < 0
       THEN Return(r, Error(StatusBadRequest, ErrInvalidMWM))
       ELSE Goto(r, "lock")
    /\ UNCHANGED <<waitq, now, start, powIn, res, setupVars,
                   maxTxInBundle, req, body, command, idx, transactions,
                   powedBundle, w, powErr, powCalls, locks>>
    /\ validatedAt' = IF command[r].MWM < 0 THEN validatedAt
                      ELSE [validatedAt EXCEPT ![r] = now]

\* Lines 150-152.
Validate(r) ==
    /\ pc[r] = "validate"
    /\ IF InvalidMWM(command[r].MWM)
       THEN Return(r, Error(StatusBadRequest, ErrInvalidMWM))
       ELSE Goto(r, "lock")
    /\ UNCHANGED <<waitq, now, start, powIn, res, setupVars,
                   maxMWM, maxTxInBundle, req, body, command, idx, transactions,
                   powedBundle, w, powErr, powCalls, locks>>
    /\ validatedAt' = IF InvalidMWM(command[r].MWM) THEN validatedAt
                      ELSE [validatedAt EXCEPT ![r] = now]

\* A slip that takes the mutex without waiting for it.
LockWithoutWaiting(r) ==
    /\ pc[r] = "lock"
    /\ mu' = TRUE
    /\ deferred' = [deferred EXCEPT ![r] = <<"mu.Unlock">>]
    /\ pc' = [pc EXCEPT ![r] = "checkBatch"]
    /\ locks' = [locks EXCEPT ![r] = @ + 1]
    /\ UNCHANGED <<now, validatedAt, start, powIn, res, setupVars,
                   maxMWM, maxTxInBundle, req, body, command, idx, transactions,
                   powedBundle, w, ret, fwd, powErr, powCalls, unlocks>>
    /\ waitq' = SelectSeq(waitq, LAMBDA x : x # r)

\* Lines 155-156: mu.Lock() returns once the mutex is free; the unlock is
\* deferred.
Lock(r) ==
    /\ pc[r] = "lock"
    /\ mu = FALSE
    /\ mu' = TRUE
    /\ deferred' = [deferred EXCEPT ![r] = <<"mu.Unlock">>]
    /\ pc' = [pc EXCEPT ![r] = "checkBatch"]
    /\ UNCHANGED <<now, validatedAt, start, powIn, res, setupVars,
                   maxMWM, maxTxInBundle, req, body, command, idx, transactions,
                   powedBundle, w, ret, fwd, powErr, powCalls, unlocks>>
    /\ waitq' = SelectSeq(waitq, LAMBDA x : x # r)
    /\ locks' = [locks EXCEPT ![r] = @ + 1]

\* A slip that also refuses a batch of exactly the limit.
TooManyTxsAtLimit(n) == n >= maxTxInBundle

\* len(txTrytes) > maxTxInBundle
TooManyTxs(n) == n > maxTxInBundle

\* A slip that rejects the empty batch as a batch outside the limit.
BatchOutcomeRejectEmpty(txTrytes) ==
    IF Len(txTrytes) = 0 \/ TooManyTxs(Len(txTrytes)) THEN "reject" ELSE "decode"

\* Lines 162-170 as a function of the batch: the empty batch is forwarded, a
\* batch over the limit rejected, any other decoded.
BatchOutcome(txTrytes) ==
    IF Len(txTrytes) = 0 THEN "forward"
    ELSE IF TooManyTxs(Len(txTrytes)) THEN "reject"
    ELSE "decode"

\* Lines 158-176.
CheckBatch(r) ==
    /\ pc[r] = "checkBatch"
    /\ LET txTrytes == command[r].Trytes
           to == BatchOutcome(txTrytes)
       IN CASE to = "forward" ->
                 /\ CallNext(r, req[r].method, body[r])
                 /\ UNCHANGED <<idx, transactions>>
            [] to = "reject" ->
                 /\ Return(r, Error(StatusBadRequest, ErrTxBundleLimitExceeded))
                 /\ UNCHANGED <<idx, transactions>>
            [] OTHER ->
                 /\ Goto(r, "decode")
                 /\ idx' = [idx EXCEPT ![r] = Len(txTrytes)]
                 /\ transactions' = [transactions EXCEPT ![r] = <<>>]
    /\ UNCHANGED <<waitq, now, validatedAt, powIn, res, setupVars,
                   maxMWM, maxTxInBundle, req, body, command, powedBundle, w,
                   powErr, powCalls, locks>>
    /\ start' = IF BatchOutcome(command[r].Trytes) = "decode"
                THEN [start EXCEPT ![r] = now] ELSE start

\* One iteration of the loop of lines 177-193; after the last one the logging
\* of lines 195-202.
DecodeTx(r) ==
    /\ pc[r] = "decode"
    /\ LET d == AsTransactionObject(command[r].Trytes[idx[r]]) IN
        IF d.err
        THEN /\ Return(r, Error(StatusBadRequest, ErrBuildingTx))
             /\ UNCHANGED <<idx, transactions>>
        ELSE /\ transactions' = [transactions EXCEPT ![r] = <<d.tx>> \o @]
             /\ idx' = [idx EXCEPT ![r] = @ - 1]
             /\ Goto(r, IF idx[r] = 1 THEN "pow" ELSE "decode")
    /\ UNCHANGED <<waitq, now, validatedAt, start, powIn, res, setupVars,
                   maxMWM, maxTxInBundle, req, body, command, powedBundle, w,
                   powErr, powCalls, locks>>

\* Line 203: pow.DoPoW is entered.
DoPoWCall(r) ==
    /\ pc[r] = "pow"
    /\ powCalls' = [powCalls EXCEPT ![r] = @ + 1]
    /\ Goto(r, "inPow")
    /\ UNCHANGED <<waitq, now, validatedAt, start, res, setupVars,
                   maxMWM, maxTxInBundle, req, body, command, idx, transactions,
                   powedBundle, w, powErr, locks>>
    /\ powIn' = [powIn EXCEPT ![r] = command[r].Trytes]

\* A slip that calls pow.DoPoW again after it failed.
DoPoWReturnRetry(r, ok) ==
    /\ pc[r] = "inPow"
    /\ powErr' = [powErr EXCEPT ![r] = ~ok]
    /\ IF ok
       THEN /\ powedBundle' = [powedBundle EXCEPT ![r] = DoPoW(powIn[r])]
            /\ Goto(r, "encode")
       ELSE /\ Goto(r, "pow")
            /\ UNCHANGED powedBundle
    /\ UNCHANGED <<waitq, now, validatedAt, start, powIn, res, setupVars,
                   maxMWM, maxTxInBundle, req, body, command, idx, transactions,
                   w, powCalls, locks>>

\* Lines 203-208: pow.DoPoW returns, with the attached batch or an error.
DoPoWReturn(r, ok) ==
    /\ pc[r] = "inPow"
    /\ powErr' = [powErr EXCEPT ![r] = ~ok]
    /\ IF ok
       THEN /\ powedBundle' = [powedBundle EXCEPT ![r] = DoPoW(powIn[r])]
            /\ Goto(r, "encode")
       ELSE /\ Return(r, Error(StatusBadRequest, ErrExecutingProofOfWork))
            /\ UNCHANGED powedBundle
    /\ UNCHANGED <<waitq, now, validatedAt, start, powIn, res, setupVars,
                   maxMWM, maxTxInBundle, req, body, command, idx, transactions,
                   w, powCalls, locks>>

\* The nanoseconds of one millisecond: the divisor of line 210.
NanosPerMilli == 1000000

\* The division of two int64 in Go, which truncates towards zero.
GoDiv(a, b) == IF a >= 0 THEN a \div b ELSE -((-a) \div b)

\* json.Marshal(res) of line 212.
Marshal(r) ==
    <<[syntax |-> "object", trytes |-> r.Trytes, duration |-> r.Duration]>>

\* Lines 210-222: the response is built, serialized and written; json.Marshal
\* or w.Write may fail.
Encode(r, outcome) ==
    /\ pc[r] = "encode"
    /\ LET built == [Trytes |-> powedBundle[r],
                     Duration |-> GoDiv(now - start[r], NanosPerMilli)]
           resBytes == Marshal(built)
           header == {<<"Content-Type", "application/json">>,
                      <<"access-control-allow-origin", "*">>}
       IN CASE outcome = "marshalError" ->
                 /\ Return(r, Error(StatusInternalServerError, ErrBuildingRes))
                 /\ UNCHANGED w
                 /\ res' = [res EXCEPT ![r] = built]
            [] outcome = "writeError" ->
                 /\ w' = [w EXCEPT ![r] = [header |-> header, written |-> <<>>]]
                 /\ res' = [res EXCEPT ![r] = built]
                 /\ Return(r, Error(StatusInternalServerError, ErrBuildingRes))
            [] OTHER ->
                 /\ w' = [w EXCEPT ![r] = [header |-> header, written |-> resBytes]]
                 /\ res' = [res EXCEPT ![r] = built]
                 /\ Return(r, Success)
    /\ UNCHANGED <<waitq, now, validatedAt, start, powIn, setupVars,
                   maxMWM, maxTxInBundle, req, body, command, idx, transactions,
                   powedBundle, powErr, powCalls, locks>>

\* A slip that answers with an error after the next handler has answered.
NextReturnAsError(r) ==
    /\ pc[r] = "next"
    /\ Return(r, Error(StatusInternalServerError, ErrBuildingRes))
    /\ UNCHANGED <<waitq, now, validatedAt, start, powIn, res, setupVars,
                   maxMWM, maxTxInBundle, req, body, command, idx, transactions,
                   powedBundle, w, powErr, powCalls, locks>>

\* The next handler returns and ServeHTTP returns what it returned.
NextReturn(r) ==
    /\ pc[r] = "next"
    /\ Return(r, Forwarded)
    /\ UNCHANGED <<waitq, now, validatedAt, start, powIn, res, setupVars,
                   maxMWM, maxTxInBundle, req, body, command, idx, transactions,
                   powedBundle, w, powErr, powCalls, locks>>

Next ==
    \/ \E r \in Reqs, q \in Requests : Classify(r, q)
    \/ \E r \in Reqs : Validate(r)
    \/ \E r \in Reqs : Lock(r)
    \/ \E r \in Reqs : CheckBatch(r)
    \/ \E r \in Reqs : DecodeTx(r)
    \/ \E r \in Reqs : DoPoWCall(r)
    \/ \E r \in Reqs, ok \in BOOLEAN : DoPoWReturn(r, ok)
    \/ \E r \in Reqs, o \in {"marshalError", "writeError", "ok"} : Encode(r, o)
    \/ \E r \in Reqs : NextReturn(r)

Spec == Init /\ [][Next]_vars

\* ------------------------------------------------ waiting for the mutex
\* One request more than the server otherwise handles at once: a holder, a
\* waiter and a later arrival.
QueueReqs == 1..(NumReqs + 1)

\* attachToTangle requests with a difficulty in range: one transaction, or
\* none.
QueueRequests ==
    { [method |-> "POST",
       body |-> Reader(<<JSONObject(attachToTangleCommand, MaxDifficulty,
                                    Batch(n, {}))>>)] : n \in {0, 1} }

\* mu.Lock() of line 155 finds the mutex held: the caller starts waiting.
Park(r) ==
    /\ pc[r] = "lock"
    /\ mu = TRUE
    /\ \A k \in DOMAIN waitq : waitq[k] # r
    /\ waitq' = Append(waitq, r)
    /\ UNCHANGED <<now, validatedAt, start, powIn, res, setupVars,
                   maxMWM, maxTxInBundle, mu, pc, req, body, command, deferred,
                   idx, transactions, powedBundle, w, ret, fwd, powErr,
                   powCalls, locks, unlocks>>

QueueInit ==
    /\ SetupDone
    /\ ServeInit(QueueReqs)
    /\ now = 0

QueueNext ==
    \/ \E r \in QueueReqs, q \in QueueRequests : Classify(r, q)
    \/ \E r \in QueueReqs : Validate(r)
    \/ \E r \in QueueReqs : Park(r)
    \/ \E r \in QueueReqs : Lock(r)
    \/ \E r \in QueueReqs : CheckBatch(r)
    \/ \E r \in QueueReqs : DecodeTx(r)
    \/ \E r \in QueueReqs : DoPoWCall(r)
    \/ \E r \in QueueReqs, ok \in BOOLEAN : DoPoWReturn(r, ok)
    \/ \E r \in QueueReqs, o \in {"marshalError", "writeError", "ok"} : Encode(r, o)
    \/ \E r \in QueueReqs : NextReturn(r)

\* The server with the requests that wait inside mu.Lock() recorded in the
\* order in which they started waiting.
QueueSpec == QueueInit /\ [][QueueNext]_vars

\* The steps the goroutine of the request r takes once the request is in;
\* pow.DoPoW and the next handler return.
Step(r) ==
    \/ Validate(r)
    \/ Lock(r)
    \/ CheckBatch(r)
    \/ DecodeTx(r)
    \/ DoPoWCall(r)
    \/ \E ok \in BOOLEAN : DoPoWReturn(r, ok)
    \/ \E o \in {"marshalError", "writeError", "ok"} : Encode(r, o)
    \/ NextReturn(r)

\* ------------------------------------------------------------ the clock
\* The readings of time.Now().UnixNano(), half a millisecond apart.
ClockValues == { k * (NanosPerMilli \div 2) : k \in 0..(2 * MaxMillis) }

\* attachToTangle requests with a difficulty in range: a full batch, or an
\* empty one.
TimedRequests ==
    { [method |-> "POST",
       body |-> Reader(<<JSONObject(attachToTangleCommand, MaxDifficulty,
                                    Batch(n, {}))>>)] : n \in {0, MaxBundle} }

\* What no step of the clock changes.
serveVars == <<maxMWM, maxTxInBundle, mu, pc, req, body, command, deferred, idx,
               transactions, powedBundle, w, ret, fwd, powErr, powCalls, locks,
               unlocks, waitq, validatedAt, start, powIn, res, setupVars>>

\* Half a millisecond passes.  Time is followed on the scale of pow.DoPoW:
\* it passes while a computation runs, the other steps take none.
Tick ==
    /\ \E h \in Reqs : pc[h] = "inPow"
    /\ now + (NanosPerMilli \div 2) \in ClockValues
    /\ now' = now + (NanosPerMilli \div 2)
    /\ UNCHANGED serveVars

\* The wall clock is set back (time.Now().UnixNano() is the wall clock
\* reading, which the system may step).
SetBack(t) ==
    /\ t < now
    /\ now' = t
    /\ UNCHANGED serveVars

TimedInit ==
    /\ SetupDone
    /\ ServeInit(Reqs)
    /\ now \in ClockValues

TimedNext ==
    \/ \E r \in Reqs, q \in TimedRequests : Classify(r, q)
    \/ \E r \in Reqs : Validate(r)
    \/ \E r \in Reqs : Park(r)
    \/ \E r \in Reqs : Lock(r)
    \/ \E r \in Reqs : CheckBatch(r)
    \/ \E r \in Reqs : DecodeTx(r)
    \/ \E r \in Reqs : DoPoWCall(r)
    \/ \E r \in Reqs, ok \in BOOLEAN : DoPoWReturn(r, ok)
    \/ \E r \in Reqs, o \in {"marshalError", "writeError", "ok"} : Encode(r, o)
    \/ \E r \in Reqs : NextReturn(r)
    \/ Tick
    \/ \E t \in ClockValues : SetBack(t)

\* The server with the clock its requests read.
TimedSpec == TimedInit /\ [][TimedNext]_vars

SteadyNext ==
    \/ \E r \in Reqs, q \in TimedRequests : Classify(r, q)
    \/ \E r \in Reqs : Validate(r)
    \/ \E r \in Reqs : Park(r)
    \/ \E r \in Reqs : Lock(r)
    \/ \E r \in Reqs : CheckBatch(r)
    \/ \E r \in Reqs : DecodeTx(r)
    \/ \E r \in Reqs : DoPoWCall(r)
    \/ \E r \in Reqs, ok \in BOOLEAN : DoPoWReturn(r, ok)
    \/ \E r \in Reqs, o \in {"marshalError", "writeError", "ok"} : Encode(r, o)
    \/ \E r \in Reqs : NextReturn(r)
    \/ Tick

\* The server while nobody sets the clock: its readings never decrease.
SteadySpec == TimedInit /\ [][SteadyNext]_vars

\* ---------------------------------------------------------------- setup
defaultMaxMWM == 14
defaultMaxTxsInBundle == 20

\* The tokens an argument of the directive can be, as the characters
\* written in the Caddyfile, with what the writer means by them: an integer
\* (and which) or not.
ArgTokens ==
    { [text |-> <<"7">>, integer |-> TRUE, value |-> 7],
      [text |-> <<"-", "3">>, integer |-> TRUE, value |-> -3],
      [text |-> <<"x">>, integer |-> FALSE, value |-> 0],
      [text |-> <<"1", "x">>, integer |-> FALSE, value |-> 0] }

\* The argument lists of up to n tokens.
RECURSIVE ArgLists(_)
ArgLists(n) ==
    IF n = 0 THEN { <<>> }
    ELSE ArgLists(n - 1)
         \cup { Append(l, t) : l \in { x \in ArgLists(n - 1) : Len(x) = n - 1 },
                               t \in ArgTokens }

\* The server blocks: the argument lists of one up to MaxOccurrences
\* occurrences of the directive (setup runs only when there is one).
RECURSIVE Caddyfiles(_)
Caddyfiles(n) ==
    IF n = 0 THEN { <<>> }
    ELSE Caddyfiles(n - 1)
         \cup { Append(f, l) : f \in { x \in Caddyfiles(n - 1) : Len(x) = n - 1 },
                               l \in ArgLists(MaxArgs) }

DigitValue ==
    [c \in {"0", "1", "2", "3", "4", "5", "6", "7", "8", "9"} |->
        CASE c = "0" -> 0 [] c = "1" -> 1 [] c = "2" -> 2 [] c = "3" -> 3
          [] c = "4" -> 4 [] c = "5" -> 5 [] c = "6" -> 6 [] c = "7" -> 7
          [] c = "8" -> 8 [] c = "9" -> 9]

\* The number a sequence of decimal digits stands for.
RECURSIVE DecimalValue(_)
DecimalValue(ds) ==
    IF ds = <<>> THEN 0
    ELSE 10 * DecimalValue(SubSeq(ds, 1, Len(ds) - 1)) + DigitValue[ds[Len(ds)]]

\* strconv.Atoi: an optional sign and at least one decimal digit, nothing
\* else (the tokens are too short to leave the range of int).
Atoi(t) ==
    LET signed == t # <<>> /\ Head(t) \in {"+", "-"}
        ds == IF signed THEN Tail(t) ELSE t
    IN IF ds = <<>> \/ \E k \in DOMAIN ds : ds[k] \notin DOMAIN DigitValue
       THEN [err |-> TRUE, val |-> 0]
       ELSE [err |-> FALSE,
             val |-> IF signed /\ Head(t) = "-" THEN -DecimalValue(ds)
                     ELSE DecimalValue(ds)]

\* What setup leaves alone.
handlerVars == <<mu, pc, req, body, command, deferred, idx, transactions,
                 powedBundle, w, ret, fwd, powErr, powCalls, locks, unlocks,
                 waitq, now, validatedAt, start, powIn, res>>

\* for c.Next() of line 63: the next occurrence of the directive is entered,
\* or there is none and setup installs the middleware and returns nil
\* (lines 86-93).
NextDirective ==
    /\ setupPc = "next"
    /\ IF directives = <<>>
       THEN /\ setupPc' = "returned"
            /\ setupRet' = "nil"
            /\ UNCHANGED <<directives, args>>
       ELSE /\ args' = Head(directives)
            /\ directives' = Tail(directives)
            /\ setupPc' = "nextArg"
            /\ UNCHANGED setupRet
    /\ UNCHANGED <<caddyfile, i, maxMWM, maxTxInBundle, handlerVars>>

\* for ; c.NextArg(); i++ of lines 64-81: one argument of the occurrence is
\* read, or there is none left.  On a parse error the limit is set to its
\* default and the continue still counts the argument.
NextArg ==
    /\ setupPc = "nextArg"
    /\ IF args = <<>>
       THEN /\ setupPc' = "check"
            /\ UNCHANGED <<args, i, maxMWM, maxTxInBundle>>
       ELSE LET a == Atoi(Head(args).text) IN
            /\ args' = Tail(args)
            /\ i' = i + 1
            /\ UNCHANGED setupPc
            /\ maxMWM' = IF i = 0
                          THEN (IF a.err THEN defaultMaxMWM ELSE a.val)
                          ELSE maxMWM
            /\ maxTxInBundle' = IF i = 1
                                 THEN (IF a.err THEN defaultMaxTxsInBundle ELSE a.val)
                                 ELSE maxTxInBundle
    /\ UNCHANGED <<caddyfile, directives, setupRet, handlerVars>>

\* if i != 2 { return c.ArgErr() } of lines 82-84.
CheckArgs ==
    /\ setupPc = "check"
    /\ IF i # 2
       THEN setupPc' = "returned" /\ setupRet' = "ArgErr"
       ELSE setupPc' = "next" /\ UNCHANGED setupRet
    /\ UNCHANGED <<caddyfile, directives, args, i, maxMWM, maxTxInBundle,
                   handlerVars>>

\* The package as loaded (lines 55-56) and setup entered with the
\* directive's occurrences; no request is served before setup returns.
SetupInit ==
    /\ maxTxInBundle = 50
    /\ maxMWM = 14
    /\ caddyfile \in Caddyfiles(MaxOccurrences) \ { <<>> }
    /\ directives = caddyfile
    /\ args = <<>>
    /\ i = 0
    /\ setupPc = "next"
    /\ setupRet = "none"
    /\ ServeInit(Reqs)
    /\ now = 0

SetupNext ==
    \/ NextDirective
    \/ NextArg
    \/ CheckArgs

SetupSpec == SetupInit /\ [][SetupNext]_vars

\* The scheduler runs every goroutine that can run.
FairSpec == QueueSpec /\ \A r \in QueueReqs : WF_vars(Step(r))

\* ------------------------------------------------------------ vocabulary
\* The request r received is a POST whose body is one JSON object.
DecodesAsEnvelope(r) ==
    /\ req[r].method = "POST"
    /\ req[r].body.kind = "reader"
    /\ Len(req[r].body.data) = 1
    /\ req[r].body.data[1].syntax = "object"

\* The envelope the request r was sent with.
Envelope(r) == req[r].body.data[1]

IsAttach(r) == DecodesAsEnvelope(r) /\ Envelope(r).command = attachToTangleCommand

Arrived(r) == pc[r] # "idle"

\* The request r received is a POST with a readable body that is no envelope.
Undecodable(r) ==
    /\ req[r].method = "POST"
    /\ req[r].body.kind = "reader"
    /\ ~(Len(req[r].body.data) = 1 /\ req[r].body.data[1].syntax = "object")

\* The difficulty of the envelope is inside the configured range.
MWMInRange(r) ==
    0 <= Envelope(r).minWeightMagnitude /\ Envelope(r).minWeightMagnitude <= maxMWM

\* The request r ended with the client error err.
Rejected(r, err) == pc[r] = "done" /\ ret[r] = Error(StatusBadRequest, err)

\* The request r is at or past the call of pow.DoPoW.
ReachedCompute(r) == pc[r] \in {"pow", "inPow", "encode"} \/ powCalls[r] > 0

\* The next handler was given the method and the body bytes that arrived.
ForwardedUnchanged(r) ==
    /\ fwd[r].called
    /\ fwd[r].method = req[r].method
    /\ Yield(fwd[r].body) = Yield(req[r].body)

\* ------------------------------------------------------------------ claims
\* C1: at most one request is inside pow.DoPoW at any moment.
C1_ComputeSerialized ==
    \A r1, r2 \in Reqs : pc[r1] = "inPow" /\ pc[r2] = "inPow" => r1 = r2

\* One request is inside pow.DoPoW while another waits at mu.Lock().
C1_Witness ==
    \E r1, r2 \in Reqs : pc[r1] = "inPow" /\ pc[r2] = "lock"

\* C2: a request that acquired the mutex releases it exactly once by the time
\* ServeHTTP has returned, never more often than it acquired it, and the
\* mutex is free whenever no request is between acquisition and return.
C2_LockReleasedOnEveryExit ==
    /\ \A r \in Reqs : unlocks[r] <= locks[r] /\ locks[r] <= 1
    /\ \A r \in Reqs : pc[r] = "done" => unlocks[r] = locks[r] /\ deferred[r] = <<>>
    /\ (\A r \in Reqs : locks[r] = 0 \/ pc[r] = "done") => mu = FALSE

\* Two requests acquired the mutex and returned, one by forwarding an empty
\* batch and one by failing to write its response.
C2_Witness ==
    \E r1, r2 \in Reqs :
        /\ pc[r1] = "done" /\ locks[r1] = 1 /\ ret[r1] = Forwarded
        /\ pc[r2] = "done" /\ locks[r2] = 1
        /\ ret[r2] = Error(StatusInternalServerError, ErrBuildingRes)

\* C3: a POST whose body decodes as an envelope with another command is
\* handed to the next handler with its method and exactly its body bytes, and
\* is neither validated nor locked nor computed.
C3_OtherCommandForwardedUnchanged ==
    \A r \in Reqs :
        (DecodesAsEnvelope(r) /\ Envelope(r).command # attachToTangleCommand
         /\ Arrived(r))
        => /\ ForwardedUnchanged(r)
           /\ pc[r] \in {"next", "done"}
           /\ pc[r] = "done" => ret[r] = Forwarded
           /\ locks[r] = 0 /\ powCalls[r] = 0

\* A getNodeInfo request has been forwarded and has returned.
C3_Witness ==
    \E r \in Reqs :
        /\ DecodesAsEnvelope(r) /\ Envelope(r).command = "getNodeInfo"
        /\ pc[r] = "done" /\ fwd[r].called

\* C4: a POST whose body does not decode as an envelope is forwarded with a
\* body stream that still yields the bytes that arrived.
C4_UndecodableForwardedUnchanged ==
    \A r \in Reqs :
        (Undecodable(r) /\ Arrived(r))
        => /\ ForwardedUnchanged(r)
           /\ pc[r] = "done" => ret[r] = Forwarded

\* C5: an attachToTangle request whose difficulty is above the maximum or
\* below zero ends with 400, is not forwarded and never reaches pow.DoPoW; a
\* difficulty from 0 to the maximum is never refused as invalid.
C5_DifficultyOutOfRangeRejected ==
    \A r \in Reqs :
        (IsAttach(r) /\ Arrived(r))
        => /\ (Envelope(r).minWeightMagnitude > maxMWM
               \/ Envelope(r).minWeightMagnitude < 0)
              => /\ pc[r] \in {"validate", "done"}
                 /\ pc[r] = "done" => Rejected(r, ErrInvalidMWM)
                 /\ ~fwd[r].called
                 /\ ~ReachedCompute(r)
           /\ MWMInRange(r)
              => /\ ret[r].err # ErrInvalidMWM
                 /\ pc[r] = "done" => locks[r] = 1

\* A negative difficulty and one above the maximum were rejected.
C5_Witness ==
    \E r1, r2 \in Reqs :
        /\ IsAttach(r1) /\ Envelope(r1).minWeightMagnitude < 0
        /\ Rejected(r1, ErrInvalidMWM)
        /\ IsAttach(r2) /\ Envelope(r2).minWeightMagnitude > maxMWM
        /\ Rejected(r2, ErrInvalidMWM)

\* C6 as stated: every attachToTangle request whose batch is longer than the
\* maximum ends with 400 and never reaches pow.DoPoW; a batch of exactly the
\* maximum is not refused for its size.
C6_OversizedBatchRejected ==
    \A r \in Reqs :
        (IsAttach(r) /\ Arrived(r))
        => /\ Len(Envelope(r).trytes) > maxTxInBundle
              => /\ ~ReachedCompute(r)
                 /\ pc[r] = "done"
                    => ret[r].kind = "error" /\ ret[r].status = StatusBadRequest
           /\ Len(Envelope(r).trytes) = maxTxInBundle
              => ret[r].err # ErrTxBundleLimitExceeded

\* C6 amended: every attachToTangle request whose batch is not empty and is
\* longer than the maximum ends with 400 and never reaches pow.DoPoW; a batch
\* of exactly the maximum is not refused for its size.
C6_NonEmptyOversizedBatchRejected ==
    \A r \in Reqs :
        (IsAttach(r) /\ Arrived(r))
        => /\ (Len(Envelope(r).trytes) > maxTxInBundle /\ Len(Envelope(r).trytes) > 0)
              => /\ ~ReachedCompute(r)
                 /\ pc[r] = "done"
                    => ret[r].kind = "error" /\ ret[r].status = StatusBadRequest
           /\ Len(Envelope(r).trytes) = maxTxInBundle
              => ret[r].err # ErrTxBundleLimitExceeded

\* A batch one over the limit was refused for its size while a batch of
\* exactly the limit has been decoded and is about to be computed.
C6_Witness ==
    \E r1, r2 \in Reqs :
        /\ IsAttach(r1) /\ Len(Envelope(r1).trytes) = maxTxInBundle + 1
        /\ Rejected(r1, ErrTxBundleLimitExceeded)
        /\ IsAttach(r2) /\ Len(Envelope(r2).trytes) = maxTxInBundle
        /\ pc[r2] = "pow"

\* C7 as stated: every attachToTangle request with an empty batch, whatever
\* its difficulty, ends forwarded unchanged and not with an error, and
\* pow.DoPoW never runs on an empty batch.
C7_EmptyBatchForwarded ==
    /\ \A r \in Reqs :
        (IsAttach(r) /\ Len(Envelope(r).trytes) = 0 /\ pc[r] = "done")
        => ret[r] = Forwarded /\ ForwardedUnchanged(r)
    /\ \A r \in Reqs : ReachedCompute(r) => Len(command[r].Trytes) > 0

\* C7 amended: every attachToTangle request with an empty batch and a
\* difficulty from 0 to the maximum ends forwarded unchanged and not with an
\* error, and pow.DoPoW never runs on an empty batch.
C7_EmptyBatchInRangeForwarded ==
    /\ \A r \in Reqs :
        (IsAttach(r) /\ Len(Envelope(r).trytes) = 0 /\ MWMInRange(r)
         /\ pc[r] = "done")
        => ret[r] = Forwarded /\ ForwardedUnchanged(r)
    /\ \A r \in Reqs : ReachedCompute(r) => Len(command[r].Trytes) > 0

\* An attachToTangle request with an empty batch took the mutex, was
\* forwarded and returned.
C7_Witness ==
    \E r \in Reqs :
        /\ IsAttach(r) /\ Len(Envelope(r).trytes) = 0
        /\ pc[r] = "done" /\ ret[r] = Forwarded /\ locks[r] = 1

\* C8: a batch that is decoded (difficulty in range, not empty, within the
\* limit) and holds a malformed transaction at any position ends with 400
\* ErrBuildingTx, never reaches pow.DoPoW and is not forwarded.
C8_DecodeAllOrNothing ==
    \A r \in Reqs :
        (/\ IsAttach(r) /\ Arrived(r) /\ MWMInRange(r)
         /\ Len(Envelope(r).trytes) > 0
         /\ Len(Envelope(r).trytes) <= maxTxInBundle
         /\ \E k \in DOMAIN Envelope(r).trytes : ~Envelope(r).trytes[k].wellFormed)
        => /\ ~ReachedCompute(r)
           /\ ~fwd[r].called
           /\ pc[r] = "done" => Rejected(r, ErrBuildingTx)

\* A batch of two whose first transaction is malformed was rejected after its
\* second transaction had been decoded.
C8_Witness ==
    \E r \in Reqs :
        /\ IsAttach(r) /\ Len(Envelope(r).trytes) > 1
        /\ ~Envelope(r).trytes[1].wellFormed
        /\ Len(transactions[r]) > 0
        /\ Rejected(r, ErrBuildingTx)

\* C9: once pow.DoPoW has returned an error the request has ended with 400
\* ErrExecutingProofOfWork and its deferred unlock has run; no request calls
\* pow.DoPoW more than once.
C9_ComputeFailureIsTerminal ==
    \A r \in Reqs :
        /\ powCalls[r] <= 1
        /\ powErr[r]
           => /\ Rejected(r, ErrExecutingProofOfWork)
              /\ unlocks[r] = 1 /\ deferred[r] = <<>>

\* pow.DoPoW failed for one request and another took the mutex after it.
C9_Witness ==
    \E r1, r2 \in Reqs :
        /\ powErr[r1] /\ pc[r1] = "done" /\ powCalls[r1] = 1
        /\ pc[r2] = "checkBatch"

\* C10: a POST whose body is absent or cannot be read ends with 400
\* ErrMissingBody and is never forwarded.
C10_MissingBodyRejected ==
    \A r \in Reqs :
        (req[r].method = "POST" /\ req[r].body.kind \in {"nil", "broken"}
         /\ Arrived(r))
        => Rejected(r, ErrMissingBody) /\ ~fwd[r].called

\* One POST without a body and one with an unreadable body were rejected.
C10_Witness ==
    \E r1, r2 \in Reqs :
        /\ req[r1].method = "POST" /\ req[r1].body.kind = "nil" /\ pc[r1] = "done"
        /\ req[r2].method = "POST" /\ req[r2].body.kind = "broken" /\ pc[r2] = "done"

\* C15: while a request is inside pow.DoPoW, a request waiting at mu.Lock()
\* has its batch already checked for emptiness and size and decoded, so that
\* the call of pow.DoPoW is all it waits for.
C15_BlockedOnlyBeforeCompute ==
    \A h, r \in Reqs :
        (pc[h] = "inPow" /\ pc[r] = "lock")
        => /\ BatchOutcome(command[r].Trytes) = "decode"
           /\ Len(transactions[r]) = Len(command[r].Trytes)

\* C16: a request that ended with an error status has left the response
\* writer untouched: no header set, no byte written.
C16_NothingWrittenOnError ==
    \A r \in Reqs :
        (pc[r] = "done" /\ ret[r].kind = "error") => w[r] = NewWriter

\* The position of a stage in the order of ServeHTTP.
Rank(label) ==
    CASE label = "idle" -> 0
      [] label = "validate" -> 1
      [] label = "lock" -> 2
      [] label = "checkBatch" -> 3
      [] label = "decode" -> 4
      [] label = "pow" -> 5
      [] label = "inPow" -> 6
      [] label = "encode" -> 7
      [] label = "next" -> 8
      [] label = "done" -> 9

\* The request r has ended with exactly one of the three outcomes.
OneOutcome(r) ==
    \/ /\ fwd[r].called /\ ret[r] = Forwarded /\ w[r] = NewWriter
    \/ /\ ~fwd[r].called /\ ret[r].kind = "error" /\ w[r].written = <<>>
    \/ /\ ~fwd[r].called /\ ret[r] = Success /\ w[r].written # <<>>

C19_LimitsFixedWhileServing ==
    [][/\ UNCHANGED <<maxMWM, maxTxInBundle>>
       /\ \A r \in Reqs :
            /\ Rank(pc'[r]) \in 2..7 => ~InvalidMWM(command'[r].MWM)
            /\ Rank(pc'[r]) \in 4..7 => ~TooManyTxs(Len(command'[r].Trytes))]_vars

\* One request was refused for its difficulty while another, with a
\* difficulty in range, is inside pow.DoPoW.
C19_Witness ==
    \E r1, r2 \in Reqs :
        /\ Rejected(r1, ErrInvalidMWM)
        /\ pc[r2] = "inPow" /\ command[r2].MWM = maxMWM

\* C20: a request whose call of the next handler is in progress does not
\* hold the mutex.
C20_NoForwardUnderLock ==
    \A r \in Reqs : pc[r] = "next" => deferred[r] = <<>>

\* The request r returns from mu.Lock() in this step.
Acquires(r) == locks'[r] > locks[r]

\* The set of the requests that wait inside mu.Lock().
Waiting == { waitq[k] : k \in DOMAIN waitq }

ValidBatch(r) == BatchOutcome(command[r].Trytes) = "decode"

BatchOrderKept(r) ==
    LET sent == Envelope(r).trytes
        answer == w[r].written[1].trytes
    IN /\ powIn[r] = sent
       /\ answer = powedBundle[r]
       /\ Len(answer) = Len(sent)
       /\ \A k \in DOMAIN sent : answer[k].id = sent[k].id /\ answer[k].attached

\* C13: a request answered with 200 handed pow.DoPoW the batch in its
\* order, answers with the result in the same length and order, and
\* reports a duration that is not negative.
C13_OrderKeptDurationNonNegative ==
    \A r \in Reqs :
        (pc[r] = "done" /\ ret[r] = Success)
        => /\ BatchOrderKept(r)
           /\ w[r].written[1].duration >= 0

\* The order and length part of C13, which holds.
OrderKeptOnSuccess ==
    \A r \in Reqs : (pc[r] = "done" /\ ret[r] = Success) => BatchOrderKept(r)

\* C18: the clock reading the reported duration counts from is the one at
\* the end of validation, so the time spent inside mu.Lock() is counted.
C18_DurationCountsFromValidation ==
    \A r \in Reqs :
        Rank(pc[r]) \in 4..7 => start[r] = validatedAt[r]

\* The limits the arguments of the occurrence l ask for: the value of an
\* argument that is an integer, the default for one that is not.
AskedMWM(l) == IF l[1].integer THEN l[1].value ELSE defaultMaxMWM
AskedTxs(l) == IF l[2].integer THEN l[2].value ELSE defaultMaxTxsInBundle

\* C14: setup has returned the argument error exactly if an occurrence of
\* the directive does not carry exactly two arguments, and when it has
\* returned nil the limits are those the last occurrence asks for.
C14_ArgErrIffNotTwoArgs ==
    setupPc = "returned"
    => /\ setupRet = "ArgErr"
          <=> \E k \in DOMAIN caddyfile : Len(caddyfile[k]) # 2
       /\ setupRet = "nil"
          => /\ maxMWM = AskedMWM(caddyfile[Len(caddyfile)])
             /\ maxTxInBundle = AskedTxs(caddyfile[Len(caddyfile)])

\* C14 for a directive that occurs once, which holds.
ArgErrIffNotTwoArgsOnce ==
    (setupPc = "returned" /\ Len(caddyfile) = 1)
    => /\ setupRet = "ArgErr" <=> Len(caddyfile[1]) # 2
       /\ setupRet = "nil"
          => /\ maxMWM = AskedMWM(caddyfile[1])
             /\ maxTxInBundle = AskedTxs(caddyfile[1])

====
